---- MODULE Spec2Model ----
(***************************************************************************)
(* A model of the FragPipe exoproteome scripts:                            *)
(*   format_raw.py                  raw export -> 5-column file            *)
(*   annotate.py                    accession -> annotation in column 2    *)
(*   statistics_multipletests.py    merge, filter, fold change, p-values   *)
(*   volcano_plot.py                colour of every plotted point          *)
(*   significant_list.py            rows passing the thresholds            *)
(* Each script is a separate command-line program; each has its own        *)
(* state variable (a record of the script's local variables and its        *)
(* position) and its own specification.  A script that is not running      *)
(* under a given specification stays Idle.                                 *)
(*                                                                         *)
(* Text is modelled character by character: a string is a sequence of      *)
(* one-character strings, TAB, SP and NL being the whitespace characters.  *)
(***************************************************************************)
EXTENDS Integers, Sequences, FiniteSets, TLC

VARIABLES fmt, ann, stat, corr, vol, sig

vars == <<fmt, ann, stat, corr, vol, sig>>

Idle == [pc |-> "idle"]

(***************************************************************************)
(* Text: str.strip, str.split, str.join, string comparison                 *)
(***************************************************************************)
TAB == "\t"
NL == "\n"
SP == " "

Whitespace == {TAB, NL, SP}

\* Rank of a character in code-point order, for the characters the model uses.
CharRank(c) ==
    CASE c = TAB -> 9
      [] c = NL -> 10
      [] c = SP -> 32
      [] c = "1" -> 49
      [] c = "2" -> 50
      [] c = "3" -> 51
      [] c = "A" -> 65
      [] c = "B" -> 66
      [] c = "U" -> 85
      [] c = "X" -> 88
      [] c = "Y" -> 89
      [] c = "a" -> 97
      [] c = "b" -> 98
      [] c = "c" -> 99
      [] c = "d" -> 100
      [] c = "e" -> 101
      [] c = "n" -> 110
      [] OTHER -> 127

RECURSIVE LStrip(_)
LStrip(s) ==
    IF s = <<>> THEN <<>>
    ELSE IF Head(s) \in Whitespace THEN LStrip(Tail(s)) ELSE s

RECURSIVE RStrip(_)
RStrip(s) ==
    IF s = <<>> THEN <<>>
    ELSE IF s[Len(s)] \in Whitespace THEN RStrip(SubSeq(s, 1, Len(s) - 1)) ELSE s

\* str.strip(): leading and trailing whitespace removed, tabs included.
Strip(s) == RStrip(LStrip(s))

\* str.split(sep): the fields between separators; '' splits to [''].
RECURSIVE SplitFrom(_, _, _)
SplitFrom(s, sep, cur) ==
    IF s = <<>> THEN <<cur>>
    ELSE IF Head(s) = sep THEN <<cur>> \o SplitFrom(Tail(s), sep, <<>>)
    ELSE SplitFrom(Tail(s), sep, Append(cur, Head(s)))

Split(s, sep) == SplitFrom(s, sep, <<>>)

\* str.split(sep, 1): at most one split, at the first separator.
RECURSIVE SplitOnce(_, _, _)
SplitOnce(s, sep, cur) ==
    IF s = <<>> THEN <<cur>>
    ELSE IF Head(s) = sep THEN <<cur, Tail(s)>>
    ELSE SplitOnce(Tail(s), sep, Append(cur, Head(s)))

\* sep.join(fields)
RECURSIVE Join(_, _)
Join(fields, sep) ==
    IF fields = <<>> THEN <<>>
    ELSE IF Len(fields) = 1 THEN fields[1]
    ELSE fields[1] \o <<sep>> \o Join(Tail(fields), sep)

\* s < t for Python strings (lexicographic by code point).
RECURSIVE StrLess(_, _)
StrLess(s, t) ==
    IF t = <<>> THEN FALSE
    ELSE IF s = <<>> THEN TRUE
    ELSE IF Head(s) = Head(t) THEN StrLess(Tail(s), Tail(t))
    ELSE CharRank(Head(s)) < CharRank(Head(t))

\* The line of a text file that holds the given fields.
LineOf(fields) == Join(fields, TAB) \o <<NL>>

\* The fields a written line holds: the text before the newline, cut at tabs.
FieldsOf(line) ==
    Split(IF line # <<>> /\ line[Len(line)] = NL
          THEN SubSeq(line, 1, Len(line) - 1) ELSE line, TAB)

(***************************************************************************)
(* format_raw.py                                                           *)
(***************************************************************************)
\* Largest number of data lines of a raw file.
MaxRawLines == 2

selected_columns == <<0, 1, 5, 6, 7>>

\* Headers of raw files: the documented 8 columns, and files of another shape.
RawHeaders ==
    { <<<<"a">>, <<"b">>, <<"c">>, <<"d">>, <<"e">>, <<"X">>, <<"Y">>, <<"U">>>>,
      <<<<"a">>, <<"b">>, <<"c">>, <<"d">>, <<"e">>, <<"X">>, <<"Y">>>>,
      <<<<"a">>, <<"b">>, <<"c">>, <<"d">>, <<"e">>, <<"X">>, <<"Y">>, <<"U">>, <<"n">>>> }

\* Data rows of raw files: accession, annotation and the three replicates
\* present or empty, and rows cut short.
RawFullRows ==
    { <<f0, f1, <<"c">>, <<"d">>, <<"e">>, f5, f6, f7>> :
        f0 \in {<<>>, <<"A">>, <<"B">>}, f1 \in {<<>>, <<"n">>},
        f5 \in {<<>>, <<"1">>}, f6 \in {<<>>, <<"2">>}, f7 \in {<<>>, <<"3">>} }

RawShortRows ==
    { SubSeq(r, 1, n) : r \in {x \in RawFullRows : x[6] # <<>>}, n \in {2, 6} }

RawRows == RawFullRows \cup RawShortRows

\* The fields of a row at the selected columns ('' where the row is too short).
RECURSIVE FilterColumns(_, _)
FilterColumns(columns, sel) ==
    IF sel = <<>> THEN <<>>
    ELSE <<IF Head(sel) < Len(columns) THEN columns[Head(sel) + 1] ELSE <<>>>>
         \o FilterColumns(columns, Tail(sel))

\* One data line of the raw file -> one formatted line.
FormatLine(line) == LineOf(FilterColumns(Split(Strip(line), TAB), selected_columns))

\* header[0], [1], [5], [6], [7] renamed (each name is kept as one token).
RenamedHeader(header) ==
    [i \in 1..Len(header) |->
        CASE i = 1 -> <<"Accession Number">>
          [] i = 2 -> <<"Annotation">>
          [] i = 6 -> <<"1">>
          [] i = 7 -> <<"2">>
          [] i = 8 -> <<"3">>
          [] OTHER -> header[i]]

\* sorted(lines, key=lambda x: x.split('\t')[0]): a stable insertion sort.
SortKey(line) == Split(line, TAB)[1]

RECURSIVE InsertSorted(_, _)
InsertSorted(sorted, line) ==
    IF sorted = <<>> THEN <<line>>
    ELSE IF StrLess(SortKey(line), SortKey(Head(sorted)))
         THEN <<line>> \o sorted
         ELSE <<Head(sorted)>> \o InsertSorted(Tail(sorted), line)

RECURSIVE SortedLines(_)
SortedLines(lines) ==
    IF lines = <<>> THEN <<>>
    ELSE InsertSorted(SortedLines(SubSeq(lines, 1, Len(lines) - 1)), lines[Len(lines)])

FormatInit ==
    /\ \E h \in RawHeaders :
          fmt = [pc |-> "header", lines |-> <<LineOf(h)>>, header |-> <<>>,
                 formatted_lines |-> <<>>, written |-> <<>>]
    /\ ann = Idle /\ stat = Idle /\ corr = Idle /\ vol = Idle /\ sig = Idle

\* Lines 30-49: the header is read; a file without 8 columns is skipped.
FormatHeader ==
    /\ fmt.pc = "header"
    /\ LET header == Split(Strip(fmt.lines[1]), TAB) IN
         IF Len(header) = 8
         THEN fmt' = [fmt EXCEPT !.pc = "rows",
                        !.header = RenamedHeader(header),
                        !.formatted_lines =
                            <<LineOf(FilterColumns(RenamedHeader(header), selected_columns))>>]
         ELSE fmt' = [fmt EXCEPT !.pc = "skipped"]
    /\ UNCHANGED <<ann, stat, corr, vol, sig>>

\* Lines 52-64: one iteration of the loop over the data lines.
FormatRow ==
    /\ fmt.pc = "rows"
    /\ Len(fmt.lines) <= MaxRawLines
    /\ \E r \in RawRows :
         fmt' = [fmt EXCEPT !.lines = Append(@, LineOf(r)),
                   !.formatted_lines = Append(@, FormatLine(LineOf(r)))]
    /\ UNCHANGED <<ann, stat, corr, vol, sig>>

\* Lines 66-73: the loop ends; the lines are sorted and written.
FormatWrite ==
    /\ fmt.pc = "rows"
    /\ fmt' = [fmt EXCEPT !.pc = "written",
                 !.written = <<fmt.formatted_lines[1]>>
                             \o SortedLines(Tail(fmt.formatted_lines))]
    /\ UNCHANGED <<ann, stat, corr, vol, sig>>

FormatNext == FormatHeader \/ FormatRow \/ FormatWrite

SpecFormat == FormatInit /\ [][FormatNext]_vars

\* C7: for a raw file whose header has 8 columns, the written file has the
\* header [Accession Number, Annotation, 1, 2, 3] and its data lines are, line
\* for line (up to the sort), the fields 0, 1, 5, 6, 7 of the input rows, ''
\* standing for a field the input row does not have.
Shuffles(n) == { p \in [1..n -> 1..n] : \A i, j \in 1..n : p[i] = p[j] => i = j }

FormatExpected(rawline) == FilterColumns(FieldsOf(rawline), selected_columns)

C7_FormatProjectsColumns ==
    fmt.pc = "written" =>
        /\ FieldsOf(fmt.written[1]) =
             <<<<"Accession Number">>, <<"Annotation">>, <<"1">>, <<"2">>, <<"3">>>>
        /\ Len(fmt.written) = Len(fmt.lines)
        /\ \E p \in Shuffles(Len(fmt.lines) - 1) :
             \A k \in 1..(Len(fmt.lines) - 1) :
                FieldsOf(fmt.written[k + 1]) = FormatExpected(fmt.lines[p[k] + 1])

(***************************************************************************)
(* annotate.py                                                             *)
(***************************************************************************)
\* Largest number of lines of the annotation file, and of data lines of a
\* formatted file.
MaxDictLines == 2
MaxFormattedLines == 2

Unknown == <<"Unknown">>

\* Lines of the annotation file: accession, tab, annotation.
DictEntries == { <<spo, a>> : spo \in {<<"a">>, <<"b">>}, a \in {<<"X">>, <<"Y">>} }

RECURSIVE SeqsUpTo(_, _)
SeqsUpTo(S, n) ==
    IF n = 0 THEN {<<>>}
    ELSE LET shorter == SeqsUpTo(S, n - 1) IN
         shorter \cup { Append(q, x) : q \in {y \in shorter : Len(y) = n - 1}, x \in S }

\* Data rows of a formatted file, as format_raw.py writes them: five fields,
\* of which the annotation and the replicates may be empty; a blank raw line
\* gives five empty fields.
FormattedRows ==
    { <<acc, a, r[1], r[2], r[3]>> :
        acc \in {<<"a">>, <<"c">>}, a \in {<<>>, <<"n">>},
        r \in { <<<<"1">>, <<"2">>, <<"3">>>>, <<<<"1">>, <<"2">>, <<>>>>,
                <<<<>>, <<>>, <<>>>> } }
    \cup { <<<<>>, <<>>, <<>>, <<>>, <<>>>> }

FormattedHeader ==
    <<<<"Accession Number">>, <<"Annotation">>, <<"1">>, <<"2">>, <<"3">>>>

\* dict[key] = value
DictSet(d, key, value) ==
    [k \in DOMAIN d \cup {key} |-> IF k = key THEN value ELSE d[k]]

\* dict.get(key, default)
DictGet(d, key, default) == IF key \in DOMAIN d THEN d[key] ELSE default

\* Lines 17-20: the dictionary after the lines read so far; "ValueError" when
\* a line does not split in two.
RECURSIVE LoadDict(_, _)
LoadDict(lines, d) ==
    IF lines = <<>> THEN [raised |-> "none", dict |-> d]
    ELSE LET parts == SplitOnce(Strip(Head(lines)), TAB, <<>>) IN
         IF Len(parts) # 2 THEN [raised |-> "ValueError", dict |-> d]
         ELSE LoadDict(Tail(lines), DictSet(d, parts[1], parts[2]))

EmptyDict == [k \in {} |-> <<>>]

AnnotateInit ==
    /\ \E entries \in SeqsUpTo(DictEntries, MaxDictLines) :
          ann = [pc |-> "load",
                 dict_lines |-> [i \in 1..Len(entries) |-> LineOf(entries[i])],
                 SPO_dict |-> EmptyDict, lines |-> <<>>, output |-> <<>>,
                 err |-> "none"]
    /\ fmt = Idle /\ stat = Idle /\ corr = Idle /\ vol = Idle /\ sig = Idle

\* Lines 14-20: the module-level load of the annotation file.
AnnotateLoad ==
    /\ ann.pc = "load"
    /\ LET loaded == LoadDict(ann.dict_lines, EmptyDict) IN
         IF loaded.raised # "none"
         THEN ann' = [ann EXCEPT !.pc = "error", !.err = loaded.raised]
         ELSE ann' = [ann EXCEPT !.pc = "header", !.SPO_dict = loaded.dict]
    /\ UNCHANGED <<fmt, stat, corr, vol, sig>>

\* Lines 30-33: the header line is copied.
AnnotateHeader ==
    /\ ann.pc = "header"
    /\ LET line == LineOf(FormattedHeader) IN
         ann' = [ann EXCEPT !.pc = "rows", !.lines = <<line>>,
                   !.output = <<Strip(line) \o <<NL>>>>]
    /\ UNCHANGED <<fmt, stat, corr, vol, sig>>

\* Lines 36-47: one iteration of the loop over the data lines.  columns[1] = ...
\* raises IndexError when the stripped line holds a single field.
AnnotateRow ==
    /\ ann.pc = "rows"
    /\ Len(ann.lines) <= MaxFormattedLines
    /\ \E r \in FormattedRows :
         LET line == LineOf(r)
             columns == Split(Strip(line), TAB)
             spo_id == columns[1]
             annotation == DictGet(ann.SPO_dict, spo_id, Unknown)
         IN IF Len(columns) < 2
            THEN ann' = [ann EXCEPT !.pc = "error", !.err = "IndexError",
                           !.lines = Append(@, line)]
            ELSE ann' = [ann EXCEPT !.lines = Append(@, line),
                           !.output = Append(@,
                               LineOf([columns EXCEPT ![2] = annotation]))]
    /\ UNCHANGED <<fmt, stat, corr, vol, sig>>

\* Line 49: the input is exhausted and both files are closed.
AnnotateClose ==
    /\ ann.pc = "rows"
    /\ ann' = [ann EXCEPT !.pc = "done"]
    /\ UNCHANGED <<fmt, stat, corr, vol, sig>>

AnnotateNext == AnnotateLoad \/ AnnotateHeader \/ AnnotateRow \/ AnnotateClose

SpecAnnotate == AnnotateInit /\ [][AnnotateNext]_vars

\* The annotation the annotation file lists last for an accession, 'Unknown'
\* when it lists none.
RECURSIVE LastListed(_, _)
LastListed(dict_lines, acc) ==
    IF dict_lines = <<>> THEN Unknown
    ELSE LET fields == FieldsOf(dict_lines[Len(dict_lines)]) IN
         IF fields[1] = acc THEN fields[2]
         ELSE LastListed(SubSeq(dict_lines, 1, Len(dict_lines) - 1), acc)

\* C8: every data row read from the formatted file has its output row, whose
\* column 2 is the annotation listed last for the row's column-1 accession,
\* or 'Unknown' when the annotation file does not list the accession.
C8_AnnotateEveryRow ==
    ann.pc \in {"rows", "done", "error"} =>
        /\ Len(ann.output) = Len(ann.lines)
        /\ \A k \in 2..Len(ann.lines) :
              /\ Len(FieldsOf(ann.output[k])) >= 2
              /\ FieldsOf(ann.output[k])[2] =
                    LastListed(ann.dict_lines, FieldsOf(ann.lines[k])[1])

(***************************************************************************)
(* Numbers and missing values shared by the plotter and the extractor      *)
(***************************************************************************)
\* A missing number (NaN, or None in a list of numbers that pandas turns into
\* NaN): an integer outside the range of every number the model holds.
NaN == 0 - 1000000

\* An entry of a replicate column that is text, not a number: read_csv keeps
\* it as a string.
NonNumeric == 0 - 2000000

\* A missing string (None in a list of strings): a token that is no text,
\* text being made of one-character strings.
NoneStr == <<"<None>">>

\* x > y and x < y for floats: every comparison with NaN is false.
Gt(x, y) == x # NaN /\ y # NaN /\ x > y
Lt(x, y) == x # NaN /\ y # NaN /\ x < y

\* sub in s, for strings.
RECURSIVE StartsWith(_, _)
StartsWith(s, sub) ==
    IF sub = <<>> THEN TRUE
    ELSE IF s = <<>> THEN FALSE
    ELSE Head(s) = Head(sub) /\ StartsWith(Tail(s), Tail(sub))

RECURSIVE Contains(_, _)
Contains(s, sub) ==
    IF StartsWith(s, sub) THEN TRUE
    ELSE IF s = <<>> THEN FALSE
    ELSE Contains(Tail(s), sub)

Only_ == <<"O", "n", "l", "y", "_">>

\* The values of the Present_Only_In column (suffixes e and s).
PresentValues == { <<"B", "o", "t", "h">>, Only_ \o <<"e">>, Only_ \o <<"s">> }

\* Fold changes and transformed p-values around the thresholds 2 and -2.
FoldChanges == {NaN, -3, -2, 2, 3}
TransformedPValues == {NaN, 1, 2, 3}

(***************************************************************************)
(* volcano_plot.py                                                         *)
(***************************************************************************)
\* Largest number of plotted points.
MaxPoints == 2

DarkGreen == "#006400"
Orange == "#FFA500"
Blue == "#3f65d4"
Grey == "rgba(150,150,150,0.5)"

\* PointColour with the thresholds taken as inclusive.
PointColourInclusive(present, pval, fc) ==
    IF Contains(present, Only_) THEN DarkGreen
    ELSE IF pval # NaN /\ pval >= 2
         THEN IF fc # NaN /\ fc >= 2 THEN Orange
              ELSE IF fc # NaN /\ fc <= -2 THEN Blue
              ELSE Grey
         ELSE Grey

\* Lines 80-90: the colour of one point.
PointColour(present, pval, fc) ==
    IF Contains(present, Only_) THEN DarkGreen
    ELSE IF Gt(pval, 2)
         THEN IF Gt(fc, 2) THEN Orange
              ELSE IF Lt(fc, -2) THEN Blue
              ELSE Grey
         ELSE Grey

VolcanoInit ==
    /\ vol = [pc |-> "loop", log2_fold_change |-> <<>>, transformed_pvalues |-> <<>>,
             present_only_in |-> <<>>, colors |-> <<>>, marker_color |-> <<>>]
    /\ fmt = Idle /\ ann = Idle /\ stat = Idle /\ corr = Idle /\ sig = Idle

\* Lines 79-90: one iteration of the loop over the points.
VolcanoPoint ==
    /\ vol.pc = "loop"
    /\ Len(vol.colors) < MaxPoints
    /\ \E fc \in FoldChanges, pval \in TransformedPValues, present \in PresentValues :
         vol' = [vol EXCEPT !.log2_fold_change = Append(@, fc),
                   !.transformed_pvalues = Append(@, pval),
                   !.present_only_in = Append(@, present),
                   !.colors = Append(@, PointColour(present, pval, fc))]
    /\ UNCHANGED <<fmt, ann, stat, corr, sig>>

\* Lines 92-114: the trace is added with the colour list and the plot saved.
VolcanoPlot ==
    /\ vol.pc = "loop"
    /\ vol' = [vol EXCEPT !.pc = "plotted", !.marker_color = vol.colors]
    /\ UNCHANGED <<fmt, ann, stat, corr, sig>>

VolcanoNext == VolcanoPoint \/ VolcanoPlot

SpecVolcano == VolcanoInit /\ [][VolcanoNext]_vars

\* C10: the plot has one colour per point, in the points' order: dark green
\* when Present_Only_In contains 'Only_'; otherwise orange iff -log10(p) > 2
\* and log2FC > 2, blue iff -log10(p) > 2 and log2FC < -2, grey otherwise.
C10_OneColourPerPoint ==
    vol.pc = "plotted" =>
        /\ Len(vol.marker_color) = Len(vol.log2_fold_change)
        /\ \A i \in 1..Len(vol.log2_fold_change) :
              LET fc == vol.log2_fold_change[i]
                  pval == vol.transformed_pvalues[i]
                  only == \E j \in 1..(Len(vol.present_only_in[i]) - 4) :
                             SubSeq(vol.present_only_in[i], j, j + 4) = Only_
                  sig_p == pval # NaN /\ pval > 2
                  over == sig_p /\ fc # NaN /\ fc > 2
                  under == sig_p /\ fc # NaN /\ fc < -2
                  c == vol.marker_color[i]
              IN /\ only => c = DarkGreen
                 /\ ~only => /\ c \in {Orange, Blue, Grey}
                             /\ (c = Orange <=> over)
                             /\ (c = Blue <=> under)
                             /\ (c = Grey <=> ~over /\ ~under)

\* C10's case: a plot holding an 'Only_' point and a point on a threshold.
C10_Witness ==
    /\ vol.pc = "plotted"
    /\ \E i, j \in 1..Len(vol.marker_color) :
          /\ vol.marker_color[i] = DarkGreen
          /\ vol.marker_color[j] = Grey
          /\ vol.transformed_pvalues[j] = 3 /\ vol.log2_fold_change[j] = 2

(***************************************************************************)
(* significant_list.py                                                     *)
(***************************************************************************)
\* Largest number of rows of the input table.
MaxSigRows == 2

\* The accession and the annotation of input row i (one protein per row).
AccessionOf(i) == <<"P", i>>
AnnotationOf(i) == <<"n", i>>

\* Lines 29, 38, 51 with both thresholds taken as inclusive.
SideInclusive(pval, log2_fc) ==
    IF pval # NaN /\ pval >= 2
    THEN IF log2_fc # NaN /\ log2_fc >= 2 THEN "plus"
         ELSE IF log2_fc # NaN /\ log2_fc <= -2 THEN "minus"
         ELSE "none"
    ELSE "none"

\* Lines 29, 38, 51, 63, 74: the side on which a row is listed.
Side(pval, log2_fc) ==
    IF Gt(pval, 2)
    THEN IF Gt(log2_fc, 2) THEN "plus"
         ELSE IF Lt(log2_fc, -2) THEN "minus"
         ELSE "none"
    ELSE "none"

SigInit ==
    /\ sig = [pc |-> "loop",
              log2_fold_change |-> <<>>, transformed_pvalues |-> <<>>,
              annotations |-> <<>>, accessions |-> <<>>, condition |-> <<>>,
              sign_plus |-> <<>>, accession_sign_plus |-> <<>>,
              fc_plus |-> <<>>, pval_plus |-> <<>>,
              sign_minus |-> <<>>, accession_sign_minus |-> <<>>,
              fc_minus |-> <<>>, pval_minus |-> <<>>,
              sign_plus_zero |-> <<>>, accession_sign_plus_zero |-> <<>>,
              sign_minus_zero |-> <<>>, accession_sign_minus_zero |-> <<>>,
              final_df |-> <<>>]
    /\ fmt = Idle /\ ann = Idle /\ stat = Idle /\ corr = Idle /\ vol = Idle

\* Lines 21-84: one iteration of the loop over the rows.  Every row appends
\* one entry to each of the eight main lists, None on the side or sides it is
\* not listed on.
SigRow ==
    /\ sig.pc = "loop"
    /\ Len(sig.log2_fold_change) < MaxSigRows
    /\ \E log2_fc \in FoldChanges, pval \in TransformedPValues, cond \in PresentValues :
         LET i == Len(sig.log2_fold_change) + 1
             a == AnnotationOf(i)
             acc == AccessionOf(i)
             side == Side(pval, log2_fc)
             plus_zero == Gt(pval, 2) /\ Contains(cond, Only_) /\ Gt(log2_fc, 0)
             minus_zero == Gt(pval, 2) /\ Contains(cond, Only_) /\ Lt(log2_fc, 0)
         IN sig' = [sig EXCEPT
              !.log2_fold_change = Append(@, log2_fc),
              !.transformed_pvalues = Append(@, pval),
              !.annotations = Append(@, a),
              !.accessions = Append(@, acc),
              !.condition = Append(@, cond),
              !.sign_plus_zero = IF plus_zero THEN Append(@, a) ELSE @,
              !.accession_sign_plus_zero = IF plus_zero THEN Append(@, acc) ELSE @,
              !.sign_minus_zero = IF minus_zero THEN Append(@, a) ELSE @,
              !.accession_sign_minus_zero = IF minus_zero THEN Append(@, acc) ELSE @,
              !.sign_plus = Append(@, IF side = "plus" THEN a ELSE NoneStr),
              !.accession_sign_plus = Append(@, IF side = "plus" THEN acc ELSE NoneStr),
              !.fc_plus = Append(@, IF side = "plus" THEN log2_fc ELSE NaN),
              !.pval_plus = Append(@, IF side = "plus" THEN pval ELSE NaN),
              !.sign_minus = Append(@, IF side = "minus" THEN a ELSE NoneStr),
              !.accession_sign_minus = Append(@, IF side = "minus" THEN acc ELSE NoneStr),
              !.fc_minus = Append(@, IF side = "minus" THEN log2_fc ELSE NaN),
              !.pval_minus = Append(@, IF side = "minus" THEN pval ELSE NaN)]
    /\ UNCHANGED <<fmt, ann, stat, corr, vol>>

\* list + [None] * (n - len(list)), read at position j.
Padded(list, j) == IF j <= Len(list) THEN list[j] ELSE NoneStr

\* Lines 87-107: row j of pd.concat([significant_df, zero_df], axis=1); the
\* zero columns are missing below the end of zero_df.
ConcatRow(s, j) ==
    [ Significant_Overexpressed |-> s.sign_plus[j],
      AccessionPlus |-> s.accession_sign_plus[j],
      log2FCPlus |-> s.fc_plus[j],
      neglog10Plus |-> s.pval_plus[j],
      Significant_Underexpressed |-> s.sign_minus[j],
      AccessionMinus |-> s.accession_sign_minus[j],
      log2FCMinus |-> s.fc_minus[j],
      neglog10Minus |-> s.pval_minus[j],
      Zero_Condition_Overexpressed |-> Padded(s.sign_plus_zero, j),
      AccessionZeroPlus |-> Padded(s.accession_sign_plus_zero, j),
      Zero_Condition_Underexpressed |-> Padded(s.sign_minus_zero, j),
      AccessionZeroMinus |-> Padded(s.accession_sign_minus_zero, j) ]

\* A row that dropna(how='all') removes: every column is missing.
AllMissing(row) ==
    /\ \A c \in {"Significant_Overexpressed", "AccessionPlus",
                 "Significant_Underexpressed", "AccessionMinus",
                 "Zero_Condition_Overexpressed", "AccessionZeroPlus",
                 "Zero_Condition_Underexpressed", "AccessionZeroMinus"} :
          row[c] = NoneStr
    /\ \A c \in {"log2FCPlus", "neglog10Plus", "log2FCMinus", "neglog10Minus"} :
          row[c] = NaN

RECURSIVE DropAllMissing(_)
DropAllMissing(rows) ==
    IF rows = <<>> THEN <<>>
    ELSE (IF AllMissing(Head(rows)) THEN <<>> ELSE <<Head(rows)>>)
         \o DropAllMissing(Tail(rows))

\* Lines 87-116: the loop ends; the table is built, cleaned and written.
SigWrite ==
    /\ sig.pc = "loop"
    /\ sig' = [sig EXCEPT !.pc = "written",
                 !.final_df = DropAllMissing(
                     [j \in 1..Len(sig.sign_plus) |-> ConcatRow(sig, j)])]
    /\ UNCHANGED <<fmt, ann, stat, corr, vol>>

SigNext == SigRow \/ SigWrite

SpecSignificant == SigInit /\ [][SigNext]_vars

\* C3: input row i is listed in the over-expressed columns iff -log10(p) > 2
\* and log2FC > 2, in the under-expressed columns iff -log10(p) > 2 and
\* log2FC < -2; never on both sides; and the four values listed together on a
\* side are those of one input row.
C3_SignificantRows ==
    sig.pc = "written" =>
        \A i \in 1..Len(sig.log2_fold_change) :
            LET fc == sig.log2_fold_change[i]
                pval == sig.transformed_pvalues[i]
                over == pval # NaN /\ fc # NaN /\ pval > 2 /\ fc > 2
                under == pval # NaN /\ fc # NaN /\ pval > 2 /\ fc < -2
                rowsOver == { j \in 1..Len(sig.final_df) :
                                sig.final_df[j].AccessionPlus = sig.accessions[i] }
                rowsUnder == { j \in 1..Len(sig.final_df) :
                                 sig.final_df[j].AccessionMinus = sig.accessions[i] }
            IN /\ (rowsOver # {}) <=> over
               /\ (rowsUnder # {}) <=> under
               /\ ~(rowsOver # {} /\ rowsUnder # {})
               /\ \A j \in rowsOver :
                     /\ sig.final_df[j].Significant_Overexpressed = sig.annotations[i]
                     /\ sig.final_df[j].log2FCPlus = fc
                     /\ sig.final_df[j].neglog10Plus = pval
               /\ \A j \in rowsUnder :
                     /\ sig.final_df[j].Significant_Underexpressed = sig.annotations[i]
                     /\ sig.final_df[j].log2FCMinus = fc
                     /\ sig.final_df[j].neglog10Minus = pval

\* C3's case: a table with a row listed as over-expressed, and a row on the
\* fold-change threshold that is listed on neither side.
C3_Witness ==
    /\ sig.pc = "written"
    /\ \E i, k \in 1..Len(sig.log2_fold_change) :
          /\ \E j \in 1..Len(sig.final_df) :
                sig.final_df[j].AccessionPlus = sig.accessions[i]
          /\ sig.log2_fold_change[k] = 2 /\ sig.transformed_pvalues[k] = 3
          /\ sig.sign_plus[k] = NoneStr

(***************************************************************************)
(* statistics_multipletests.py: numbers                                    *)
(*                                                                         *)
(* A replicate value is a non-negative integer, counted in units of the    *)
(* epsilon 10E-15, or NaN.  A row average, a ratio or a p-value is an      *)
(* exact fraction <<numerator, denominator>> in lowest terms.              *)
(***************************************************************************)
\* Largest replicate value, in units of the epsilon.
MaxValue == 2

\* 10E-15 (lines 76, 78, 94, 96), the unit of the replicate values.
Epsilon == 1

RECURSIVE GCD(_, _)
GCD(a, b) == IF b = 0 THEN a ELSE GCD(b, a % b)

Rat(n, d) == IF n = 0 THEN <<0, 1>> ELSE <<n \div GCD(n, d), d \div GCD(n, d)>>

RatLess(x, y) == x[1] * y[2] < y[1] * x[2]
RatLeq(x, y) == x[1] * y[2] <= y[1] * x[2]
RatMul(x, y) == Rat(x[1] * y[1], x[2] * y[2])
RatDiv(x, y) == Rat(x[1] * y[2], x[2] * y[1])
RatAdd(x, y) == Rat(x[1] * y[2] + y[1] * x[2], x[2] * y[2])
RatMin(x, y) == IF RatLess(y, x) THEN y ELSE x
RatMax(x, y) == IF RatLess(x, y) THEN y ELSE x
RatOne == <<1, 1>>
RatZero == <<0, 1>>

IsNaN(v) == v = NaN

(***************************************************************************)
(* statistics_multipletests.py: the table                                  *)
(***************************************************************************)
\* The suffixes of the two conditions, taken from the file names
\* DATE_STRAIN_MEDIUM_GROWTHPHASE (lines 164-174).
suf_1 == <<"e">>
suf_2 == <<"s">>

Replicates == {NaN} \cup 0..MaxValue
Triplicates == { <<a, b, c>> : a \in Replicates, b \in Replicates, c \in Replicates }

\* Triplicates that stand for the kinds of triplicate: all missing, all zero,
\* all present, partly missing, text in the first or in a later replicate.
KindsOfTriplicate ==
    { <<NaN, NaN, NaN>>, <<0, 0, 0>>, <<2, 2, 2>>, <<NaN, 2, 2>>,
      <<NonNumeric, 2, 2>>, <<2, NonNumeric, NonNumeric>> }

\* One data row of an input file (5 columns).
FileRow(acc, values) ==
    [accession |-> acc, annotation |-> <<"n">>, replicates |-> values]

\* pd.to_numeric(errors='coerce') on one entry: text becomes missing.
ToNumeric(v) == IF v = NonNumeric THEN NaN ELSE v

\* Lines 177-187: a file as read; iloc[:, 3:6] selects the columns at
\* positions 3 and 4 of the 5, the second and third replicate.
ReadFile(rows) ==
    [i \in 1..Len(rows) |->
        [rows[i] EXCEPT !.replicates =
            <<@[1], ToNumeric(@[2]), ToNumeric(@[3])>>]]

MissingGroup == <<NaN, NaN, NaN>>

RECURSIVE SortedKeys(_)
SortedKeys(keys) ==
    IF keys = {} THEN <<>>
    ELSE LET least == CHOOSE k \in keys : \A o \in keys : ~StrLess(o, k) IN
         <<least>> \o SortedKeys(keys \ {least})

RowsWithKey(df, key) == SelectSeq(df, LAMBDA r : r.accession = key)

\* The side of a merged row that its file has no row for: all missing.
AbsentRow == [accession |-> <<>>, annotation |-> NoneStr, replicates |-> MissingGroup]

MergedRow(key, left, right) ==
    [accession |-> key,
     annotation_1 |-> left.annotation, group1 |-> left.replicates,
     annotation_2 |-> right.annotation, group2 |-> right.replicates]

RECURSIVE Product(_, _, _)
Product(key, lefts, rights) ==
    IF lefts = <<>> THEN <<>>
    ELSE [j \in 1..Len(rights) |-> MergedRow(key, Head(lefts), rights[j])]
         \o Product(key, Tail(lefts), rights)

RECURSIVE MergeKeys(_, _, _)
MergeKeys(keys, df1, df2) ==
    IF keys = <<>> THEN <<>>
    ELSE LET key == Head(keys)
             lefts == RowsWithKey(df1, key)
             rights == RowsWithKey(df2, key)
         IN Product(key, IF lefts = <<>> THEN <<AbsentRow>> ELSE lefts,
                         IF rights = <<>> THEN <<AbsentRow>> ELSE rights)
            \o MergeKeys(Tail(keys), df1, df2)

\* Lines 59-69: the outer merge on the accession, keys in sorted order, the
\* side a protein is absent from filled with missing values.
merge_and_format(df1, df2) ==
    MergeKeys(SortedKeys({ df1[i].accession : i \in 1..Len(df1) }
                         \cup { df2[i].accession : i \in 1..Len(df2) }),
              df1, df2)

valid_triplicate_complete_only(values) ==
    Cardinality({ i \in 1..3 : IsNaN(values[i]) }) = 0

\* Lines 140-142
valid_triplicate(values) ==
    LET nan_count == Cardinality({ i \in 1..3 : IsNaN(values[i]) }) IN
    nan_count = 0 \/ nan_count = 3

\* Lines 144-145
is_all_zero(values) == \A i \in 1..3 : values[i] = 0

\* math.isnan(v) raises TypeError on a string (line 141).  valid_row reaches
\* it unless both groups are all zero, for group1 first and for group2 when
\* group1 is valid.
HasText(values) == \E i \in 1..3 : values[i] = NonNumeric

valid_row_raises(row) ==
    /\ ~(is_all_zero(row.group1) /\ is_all_zero(row.group2))
    /\ \/ HasText(row.group1)
       \/ valid_triplicate(row.group1) /\ HasText(row.group2)

\* Lines 147-155
valid_row(row) ==
    IF is_all_zero(row.group1) /\ is_all_zero(row.group2) THEN FALSE
    ELSE valid_triplicate(row.group1) /\ valid_triplicate(row.group2)

FillNa(values) == [i \in 1..3 |-> IF IsNaN(values[i]) THEN 0 ELSE values[i]]

\* Line 196: fillna(0) on every column of a row.
FillRow(row) ==
    [row EXCEPT !.group1 = FillNa(@), !.group2 = FillNa(@),
                !.annotation_1 = IF @ = NoneStr THEN <<"0">> ELSE @,
                !.annotation_2 = IF @ = NoneStr THEN <<"0">> ELSE @]

\* Lines 192-196: the row filter, then the fill of what is still missing.
FilterAndFill(df) ==
    LET kept == SelectSeq(df, valid_row) IN
    [i \in 1..Len(kept) |-> FillRow(kept[i])]

\* Lines 198-207
presence_annotation(row) ==
    IF is_all_zero(row.group1) /\ ~is_all_zero(row.group2) THEN Only_ \o suf_2
    ELSE IF is_all_zero(row.group2) /\ ~is_all_zero(row.group1) THEN Only_ \o suf_1
    ELSE <<"B", "o", "t", "h">>

\* mean(axis=1) of three values.
RowMean(values) == Rat(values[1] + values[2] + values[3], 3)

\* std(axis=1) of three values v with sum S is sqrt(x / 18) for
\* x = (3v1 - S)^2 + (3v2 - S)^2 + (3v3 - S)^2; the column holds x.
RowStd(values) ==
    LET S == values[1] + values[2] + values[3] IN
    (3 * values[1] - S) * (3 * values[1] - S)
    + (3 * values[2] - S) * (3 * values[2] - S)
    + (3 * values[3] - S) * (3 * values[3] - S)

\* Lines 209-217: the presence flag, the row averages and deviations.
WithStatistics(row) ==
    [accession |-> row.accession,
     annotation_1 |-> row.annotation_1, group1 |-> row.group1,
     annotation_2 |-> row.annotation_2, group2 |-> row.group2,
     Present_Only_In |-> presence_annotation(row),
     Row_Average_1 |-> RowMean(row.group1), STD_1 |-> RowStd(row.group1),
     Row_Average_2 |-> RowMean(row.group2), STD_2 |-> RowStd(row.group2)]

\* The value log2(x) of a column: a fraction x stands for its logarithm, and
\* an infinite logarithm, replaced by NaN and dropped (line 79), is missing.
Log2Of(x) == [missing |-> FALSE, log2_of |-> x]
MissingLog == [missing |-> TRUE, log2_of |-> RatOne]

\* Lines 75-78 left out: a zero row average stays zero.
ReplaceZeroSkipped(avg) == avg

\* Lines 75-78: .replace(0, 10E-15) on a row average.
ReplaceZero(avg) == IF avg = RatZero THEN Rat(Epsilon, 1) ELSE avg

\* Line 79: log2 of the ratio; a division by zero or a zero ratio gives an
\* infinity that is replaced by NaN and dropped.
Log2Ratio(avg_1, avg_2) ==
    IF avg_2 = RatZero \/ avg_1 = RatZero THEN MissingLog
    ELSE Log2Of(RatDiv(avg_1, avg_2))

\* Lines 72-80 and 220: the averages are replaced in the table; the column
\* Log2_Fold_Change is aligned on the rows, missing where a value was dropped.
calculate_log2_fold_change(row) ==
    [accession |-> row.accession,
     annotation_1 |-> row.annotation_1, group1 |-> row.group1,
     annotation_2 |-> row.annotation_2, group2 |-> row.group2,
     Present_Only_In |-> row.Present_Only_In,
     Row_Average_1 |-> ReplaceZero(row.Row_Average_1), STD_1 |-> row.STD_1,
     Row_Average_2 |-> ReplaceZero(row.Row_Average_2), STD_2 |-> row.STD_2,
     Log2_Fold_Change |-> Log2Ratio(ReplaceZero(row.Row_Average_1),
                                    ReplaceZero(row.Row_Average_2))]

(***************************************************************************)
(* statistics_multipletests.py: tests and corrections                      *)
(***************************************************************************)
\* Test names a user may pass: the documented ones, 'welch', a documented
\* name in capitals and a name that is no test.
TestNames ==
    {"t-test", "welch", "mannwhitneyu", "wilcoxon", "kruskal", "f_oneway",
     "ttest_rel", "T-TEST", "anova"}

\* Correction methods a user may pass: the five valid ones, 'None', and a
\* name that is no method (the comparison is case-sensitive).
CorrectionNames ==
    {"None", "bonferroni", "holm", "sidak", "fdr_bh", "fdr_by", "Bonferroni"}

\* str.lower() on the names a user may pass.
Lower(name) ==
    CASE name = "T-TEST" -> "t-test"
      [] name = "Bonferroni" -> "bonferroni"
      [] name = "None" -> "none"
      [] OTHER -> name

\* Lines 47-56: test_mapping.get(test_name.lower(), ttest_ind)
get_test_function(test_name) ==
    LET name == Lower(test_name) IN
    CASE name = "t-test" -> "ttest_ind"
      [] name = "welch" -> "welch"
      [] name = "mannwhitneyu" -> "mannwhitneyu"
      [] name = "wilcoxon" -> "wilcoxon"
      [] name = "kruskal" -> "kruskal"
      [] name = "f_oneway" -> "f_oneway"
      [] OTHER -> "ttest_ind"

\* What a call of a scipy test gives for one row: a p-value, or ValueError
\* (wilcoxon on identical groups, kruskal or mannwhitneyu on identical
\* numbers, depending on the scipy version).
TestResults ==
    { [raised |-> "none", pvalue |-> p] : p \in {<<1, 1000>>, <<1, 2>>} }
    \cup { [raised |-> "ValueError", pvalue |-> RatOne] }

\* Lines 89-96: the two groups handed to the test.
TestGroups(row) ==
    IF is_all_zero(row.group1)
    THEN <<<<Epsilon, Epsilon, Epsilon>>, row.group2>>
    ELSE IF is_all_zero(row.group2)
    THEN <<row.group1, <<Epsilon, Epsilon, Epsilon>>>>
    ELSE <<row.group1, row.group2>>

\* Lines 100-107: the p-value of one row, result being what the library
\* call gives; a function that is no test gives 1.0 without a call.
RowTest(test_func, result) ==
    IF test_func \in {"welch", "ttest_ind", "mannwhitneyu", "wilcoxon",
                      "kruskal", "f_oneway"}
    THEN result
    ELSE [raised |-> "none", pvalue |-> RatOne]

\* calculate_pvalues with 'except ValueError: pass': the row is skipped.
RECURSIVE calculate_pvalues_skipping(_, _, _)
calculate_pvalues_skipping(df, test_func, results) ==
    IF df = <<>> THEN <<>>
    ELSE (IF RowTest(test_func, Head(results)).raised = "ValueError" THEN <<>>
          ELSE <<RowTest(test_func, Head(results)).pvalue>>)
         \o calculate_pvalues_skipping(Tail(df), test_func, Tail(results))

\* Lines 83-114: one p-value appended per row, 1.0 on ValueError.
RECURSIVE calculate_pvalues(_, _, _)
calculate_pvalues(df, test_func, results) ==
    IF df = <<>> THEN <<>>
    ELSE (IF RowTest(test_func, Head(results)).raised = "ValueError"
          THEN <<RatOne>>
          ELSE <<RowTest(test_func, Head(results)).pvalue>>)
         \o calculate_pvalues(Tail(df), test_func, Tail(results))

\* -log10(p): the fraction p stands for its negated logarithm.
NegLog10(p) == [neg_log10_of |-> p]

\* Stable argsort of a list of fractions.
RECURSIVE InsertIndex(_, _, _)
InsertIndex(order, i, p) ==
    IF order = <<>> THEN <<i>>
    ELSE IF RatLess(p[i], p[Head(order)]) THEN <<i>> \o order
    ELSE <<Head(order)>> \o InsertIndex(Tail(order), i, p)

RECURSIVE ArgSortUpTo(_, _)
ArgSortUpTo(p, k) ==
    IF k = 0 THEN <<>> ELSE InsertIndex(ArgSortUpTo(p, k - 1), k, p)

ArgSort(p) == ArgSortUpTo(p, Len(p))

RECURSIVE CumMax(_)
CumMax(q) ==
    IF Len(q) <= 1 THEN q
    ELSE LET front == CumMax(SubSeq(q, 1, Len(q) - 1)) IN
         Append(front, RatMax(front[Len(front)], q[Len(q)]))

RECURSIVE CumMinFromEnd(_)
CumMinFromEnd(q) ==
    IF Len(q) <= 1 THEN q
    ELSE LET back == CumMinFromEnd(Tail(q)) IN
         <<RatMin(Head(q), Head(back))>> \o back

RECURSIVE RatPow(_, _)
RatPow(x, n) == IF n = 0 THEN RatOne ELSE RatMul(x, RatPow(x, n - 1))

\* 1 - x, for x <= 1.
OneMinus(x) == Rat(x[2] - x[1], x[2])

RECURSIVE Harmonic(_)
Harmonic(n) == IF n = 0 THEN RatZero ELSE RatAdd(Harmonic(n - 1), <<1, n>>)

Clip(x) == RatMin(x, RatOne)

\* The values computed in sorted order, put back at the positions they were
\* sorted from.
Unsorted(order, values) ==
    [i \in 1..Len(order) |-> values[CHOOSE k \in 1..Len(order) : order[k] = i]]

\* Line 135: statsmodels' multipletests, the corrected p-values.
multipletests(pvals, method) ==
    LET n == Len(pvals)
        order == ArgSort(pvals)
        sorted == [k \in 1..n |-> pvals[order[k]]]
    IN CASE method = "bonferroni" ->
              [i \in 1..n |-> Clip(RatMul(pvals[i], <<n, 1>>))]
         [] method = "sidak" ->
              [i \in 1..n |-> OneMinus(RatPow(OneMinus(pvals[i]), n))]
         [] method = "holm" ->
              Unsorted(order,
                  LET raw == [k \in 1..n |-> RatMul(sorted[k], <<n - k + 1, 1>>)]
                      acc == CumMax(raw)
                  IN [k \in 1..n |-> Clip(acc[k])])
         [] method = "fdr_bh" ->
              Unsorted(order,
                  LET raw == [k \in 1..n |-> RatMul(sorted[k], <<n, k>>)]
                      acc == CumMinFromEnd(raw)
                  IN [k \in 1..n |-> Clip(acc[k])])
         [] method = "fdr_by" ->
              Unsorted(order,
                  LET raw == [k \in 1..n |->
                                 RatMul(RatMul(sorted[k], <<n, k>>), Harmonic(n))]
                      acc == CumMinFromEnd(raw)
                  IN [k \in 1..n |-> Clip(acc[k])])

valid_methods == {"bonferroni", "holm", "sidak", "fdr_bh", "fdr_by"}

\* multiple_testing_correction with a method that is not valid treated as
\* bonferroni instead of as no correction.
multiple_testing_correction_no_fallback(p_values, method) ==
    IF method = "None" THEN p_values
    ELSE IF method \notin valid_methods THEN multipletests(p_values, "bonferroni")
    ELSE multipletests(p_values, method)

\* Lines 117-138: the corrected p-values (the second value returned is their
\* -log10, taken by the caller through NegLog10).
multiple_testing_correction(p_values, method) ==
    IF method = "None" THEN p_values
    ELSE IF method \notin valid_methods THEN p_values
    ELSE multipletests(p_values, method)

\* Largest number of p-values handed to multiple_testing_correction alone.
MaxPValues == 2

PValues == { <<1, 1000>>, <<1, 100>>, <<1, 2>>, <<1, 1>> }

CorrectionInit ==
    /\ \E p_values \in SeqsUpTo(PValues, MaxPValues), method \in CorrectionNames :
          corr = [pc |-> "call", p_values |-> p_values, method |-> method,
                  corrected |-> <<>>, neglog |-> <<>>]
    /\ fmt = Idle /\ ann = Idle /\ stat = Idle /\ vol = Idle /\ sig = Idle

\* Lines 117-138: one call of multiple_testing_correction.
CorrectionCall ==
    /\ corr.pc = "call"
    /\ LET corrected == multiple_testing_correction(corr.p_values, corr.method) IN
         corr' = [corr EXCEPT !.pc = "returned", !.corrected = corrected,
                    !.neglog = [i \in 1..Len(corrected) |-> NegLog10(corrected[i])]]
    /\ UNCHANGED <<fmt, ann, stat, vol, sig>>

CorrectionNext == CorrectionCall

SpecCorrection == CorrectionInit /\ [][CorrectionNext]_vars

\* C4: with the method 'None', or a method that is none of bonferroni, holm,
\* sidak, fdr_bh, fdr_by, the p-values returned are the p-values given, same
\* length, order and values; only a recognised method changes a p-value.
C4_FallbackToNoCorrection ==
    corr.pc = "returned" =>
        /\ corr.method \notin {"bonferroni", "holm", "sidak", "fdr_bh", "fdr_by"}
              => /\ Len(corr.corrected) = Len(corr.p_values)
                 /\ \A i \in 1..Len(corr.p_values) :
                       corr.corrected[i] = corr.p_values[i]
        /\ corr.corrected # corr.p_values
              => corr.method \in {"bonferroni", "holm", "sidak", "fdr_bh", "fdr_by"}

\* C4's case: a method that is not recognised, given p-values that a
\* correction would change.
C4_Witness ==
    /\ corr.pc = "returned"
    /\ corr.method = "Bonferroni"
    /\ corr.p_values = <<<<1, 100>>, <<1, 2>>>>
    /\ corr.corrected = corr.p_values
    /\ multipletests(corr.p_values, "bonferroni") # corr.p_values

(***************************************************************************)
(* statistics_multipletests.py: process_files                              *)
(***************************************************************************)
\* The calls of process_files the model starts from.  Every pair of test and
\* correction runs on tables built from the kinds of triplicate, a protein
\* of the second file being the first file's protein or another one; one
\* pair of test and correction runs on every such table of one row a file.
ParameterRuns ==
    { [test_name |-> t, correction_method |-> c,
       file_1 |-> <<FileRow(<<"A">>, g1)>>, file_2 |-> <<FileRow(acc, g2)>>] :
        t \in TestNames, c \in CorrectionNames,
        g1 \in KindsOfTriplicate, g2 \in KindsOfTriplicate,
        acc \in {<<"A">>, <<"B">>} }

TableRuns ==
    { [test_name |-> "t-test", correction_method |-> "fdr_bh",
       file_1 |-> <<FileRow(<<"A">>, g1)>>, file_2 |-> <<FileRow(acc, g2)>>] :
        g1 \in Triplicates, g2 \in Triplicates, acc \in {<<"A">>, <<"B">>} }

\* The script calls process_files at line 264, after line 262 has bound the
\* global name correction to the correction method.
StatInit ==
    /\ \E run \in ParameterRuns \cup TableRuns :
          stat = [pc |-> "start", err |-> "none",
                  test_name |-> run.test_name,
                  correction_method |-> run.correction_method,
                  correction |-> run.correction_method,
                  file_1 |-> run.file_1, file_2 |-> run.file_2,
                  test_func |-> "unset", merged_df |-> <<>>, kept_df |-> <<>>,
                  combined_df |-> <<>>,
                  test_results |-> <<>>, raw_pvals |-> <<>>,
                  output_filename |-> <<>>, written |-> <<>>]
    /\ fmt = Idle /\ ann = Idle /\ corr = Idle /\ vol = Idle /\ sig = Idle

\* Lines 161-174: the test is chosen and the suffixes are taken from the names.
ProcStart ==
    /\ stat.pc = "start"
    /\ stat' = [stat EXCEPT !.pc = "read",
                  !.test_func = get_test_function(stat.test_name)]
    /\ UNCHANGED <<fmt, ann, corr, vol, sig>>

\* Lines 176-190: the files are read, the columns renamed, the tables merged.
ProcMerge ==
    /\ stat.pc = "read"
    /\ LET merged == merge_and_format(ReadFile(stat.file_1), ReadFile(stat.file_2)) IN
         stat' = [stat EXCEPT !.pc = "filter", !.merged_df = merged,
                    !.combined_df = merged]
    /\ UNCHANGED <<fmt, ann, corr, vol, sig>>

\* Lines 192-196: the row filter and fillna(0).  The filter stops with the
\* TypeError of the first row that raises it.  kept_df is combined_df as
\* line 194 leaves it, before line 196 fills it.
ProcFilter ==
    /\ stat.pc = "filter"
    /\ IF \E i \in 1..Len(stat.combined_df) : valid_row_raises(stat.combined_df[i])
       THEN stat' = [stat EXCEPT !.pc = "aborted", !.err = "TypeError"]
       ELSE stat' = [stat EXCEPT !.pc = "statistics",
                       !.kept_df = SelectSeq(stat.combined_df, valid_row),
                       !.combined_df = FilterAndFill(stat.combined_df)]
    /\ UNCHANGED <<fmt, ann, corr, vol, sig>>

\* Lines 209-217: presence, averages, deviations.  On a table without rows
\* DataFrame.apply(axis=1) gives a frame instead of a column, and assigning a
\* frame to the one column Present_Only_In raises ValueError or gives an
\* empty column, depending on the pandas version.
ProcStatistics ==
    /\ stat.pc = "statistics"
    /\ \E raises \in BOOLEAN :
         /\ raises => stat.combined_df = <<>>
         /\ IF raises
            THEN stat' = [stat EXCEPT !.pc = "aborted", !.err = "ValueError"]
            ELSE stat' = [stat EXCEPT !.pc = "fold_change",
                            !.combined_df = [i \in 1..Len(@) |-> WithStatistics(@[i])]]
    /\ UNCHANGED <<fmt, ann, corr, vol, sig>>

\* Line 220
ProcFoldChange ==
    /\ stat.pc = "fold_change"
    /\ stat' = [stat EXCEPT !.pc = "pvalues",
                  !.combined_df =
                      [i \in 1..Len(@) |-> calculate_log2_fold_change(@[i])]]
    /\ UNCHANGED <<fmt, ann, corr, vol, sig>>

\* Line 222: results[i] is what the test gives for row i.
ProcPValues ==
    /\ stat.pc = "pvalues"
    /\ \E results \in [1..Len(stat.combined_df) -> TestResults] :
         stat' = [stat EXCEPT !.pc = "correction",
                    !.test_results = results,
                    !.raw_pvals = calculate_pvalues(stat.combined_df,
                                                    stat.test_func, results)]
    /\ UNCHANGED <<fmt, ann, corr, vol, sig>>

WithPValues(row, p) ==
    [accession |-> row.accession,
     annotation_1 |-> row.annotation_1, group1 |-> row.group1,
     annotation_2 |-> row.annotation_2, group2 |-> row.group2,
     Present_Only_In |-> row.Present_Only_In,
     Row_Average_1 |-> row.Row_Average_1, STD_1 |-> row.STD_1,
     Row_Average_2 |-> row.Row_Average_2, STD_2 |-> row.STD_2,
     Log2_Fold_Change |-> row.Log2_Fold_Change,
     Adj_P_Values |-> p, neg_log10_Adj_P_Values |-> NegLog10(p)]

\* Lines 224-230: the two p-value columns.  An array whose length is not the
\* number of rows cannot be assigned to a column: ValueError.
ProcCorrection ==
    /\ stat.pc = "correction"
    /\ LET pvals == IF stat.correction_method # "None"
                    THEN multiple_testing_correction(stat.raw_pvals,
                                                     stat.correction_method)
                    ELSE stat.raw_pvals
       IN IF Len(pvals) # Len(stat.combined_df)
          THEN stat' = [stat EXCEPT !.pc = "aborted", !.err = "ValueError"]
          ELSE stat' = [stat EXCEPT !.pc = "log10",
                          !.combined_df =
                              [i \in 1..Len(@) |-> WithPValues(@[i], pvals[i])]]
    /\ UNCHANGED <<fmt, ann, corr, vol, sig>>

WithLog10(row) ==
    [accession |-> row.accession,
     annotation_1 |-> row.annotation_1, group1 |-> row.group1,
     annotation_2 |-> row.annotation_2, group2 |-> row.group2,
     Present_Only_In |-> row.Present_Only_In,
     Row_Average_1 |-> row.Row_Average_1, STD_1 |-> row.STD_1,
     Row_Average_2 |-> row.Row_Average_2, STD_2 |-> row.STD_2,
     Log2_Fold_Change |-> row.Log2_Fold_Change,
     Adj_P_Values |-> row.Adj_P_Values,
     neg_log10_Adj_P_Values |-> row.neg_log10_Adj_P_Values,
     Log10_Adj_P_Values |-> NegLog10(row.Adj_P_Values)]

\* Lines 233-243: the last column.  Without a correction the code reads the
\* column P_Values, which the table does not have: KeyError.
ProcLog10 ==
    /\ stat.pc = "log10"
    /\ IF stat.correction_method # "None"
       THEN stat' = [stat EXCEPT !.pc = "export",
                       !.combined_df = [i \in 1..Len(@) |-> WithLog10(@[i])]]
       ELSE stat' = [stat EXCEPT !.pc = "aborted", !.err = "KeyError"]
    /\ UNCHANGED <<fmt, ann, corr, vol, sig>>

\* Column names: a name and the suffix the code appends to it.
Column(name) == <<name, <<>>>>
Suffixed(name, suf) == <<name, suf>>

\* Lines 61 and 185-187: the columns of the merged table.  The key comes
\* first, then the columns of the first file, then those of the second; the
\* name Annotation, which both files have, gets the suffixes.
MergedColumns ==
    <<Column("Accession Number"),
      Suffixed("Annotation", suf_1),
      Suffixed("1_", suf_1), Suffixed("2_", suf_1), Suffixed("3_", suf_1),
      Suffixed("Annotation", suf_2),
      Suffixed("1_", suf_2), Suffixed("2_", suf_2), Suffixed("3_", suf_2)>>

\* Lines 209-217: each assignment of a new column appends it.
StatisticsColumns ==
    <<Column("Present_Only_In"),
      Suffixed("Row_Average_", suf_1), Suffixed("STD_", suf_1),
      Suffixed("Row_Average_", suf_2), Suffixed("STD_", suf_2)>>

\* The columns with the presence flag appended after the deviations.
OutputColumnsPresenceLast ==
    MergedColumns
    \o SubSeq(StatisticsColumns, 2, 5) \o <<StatisticsColumns[1]>>
    \o <<Column("Log2_Fold_Change"), Column("Adj_P_Values"),
         Column("-log10(Adj_P_Values)"), Column("Log10_Adj_P_Values")>>

\* Lines 220-241: the columns of the table that reaches the export, in the
\* order the code creates them.
OutputColumns ==
    MergedColumns \o StatisticsColumns
    \o <<Column("Log2_Fold_Change"), Column("Adj_P_Values"),
         Column("-log10(Adj_P_Values)"), Column("Log10_Adj_P_Values")>>

\* row[column]
CellOf(row, column) ==
    CASE column = Column("Accession Number") -> row.accession
      [] column = Suffixed("Annotation", suf_1) -> row.annotation_1
      [] column = Suffixed("Annotation", suf_2) -> row.annotation_2
      [] column \in { Suffixed("1_", suf_1), Suffixed("2_", suf_1),
                      Suffixed("3_", suf_1) } ->
            row.group1[CHOOSE k \in 1..3 : MergedColumns[2 + k] = column]
      [] column \in { Suffixed("1_", suf_2), Suffixed("2_", suf_2),
                      Suffixed("3_", suf_2) } ->
            row.group2[CHOOSE k \in 1..3 : MergedColumns[6 + k] = column]
      [] column = Column("Present_Only_In") -> row.Present_Only_In
      [] column = Suffixed("Row_Average_", suf_1) -> row.Row_Average_1
      [] column = Suffixed("STD_", suf_1) -> row.STD_1
      [] column = Suffixed("Row_Average_", suf_2) -> row.Row_Average_2
      [] column = Suffixed("STD_", suf_2) -> row.STD_2
      [] column = Column("Log2_Fold_Change") -> row.Log2_Fold_Change
      [] column = Column("Adj_P_Values") -> row.Adj_P_Values
      [] column = Column("-log10(Adj_P_Values)") -> row.neg_log10_Adj_P_Values
      [] column = Column("Log10_Adj_P_Values") -> row.Log10_Adj_P_Values

\* Line 250: to_csv(sep='\t', index=False) writes the header line and one
\* line per row, the cells in column order.
to_csv(df, columns) ==
    [header |-> columns,
     rows |-> [i \in 1..Len(df) |->
                  [c \in 1..Len(columns) |-> CellOf(df[i], columns[c])]]]

\* Lines 245-251: the file name is built from test_name and from the global
\* name correction (NameError when it is not bound), and the table written.
ProcExport ==
    /\ stat.pc = "export"
    /\ IF stat.correction = "unbound"
       THEN stat' = [stat EXCEPT !.pc = "aborted", !.err = "NameError"]
       ELSE stat' = [stat EXCEPT !.pc = "done",
                       !.output_filename = <<stat.test_name, stat.correction>>,
                       !.written = to_csv(stat.combined_df, OutputColumns)]
    /\ UNCHANGED <<fmt, ann, corr, vol, sig>>

StatNext ==
    \/ ProcStart \/ ProcMerge \/ ProcFilter \/ ProcStatistics
    \/ ProcFoldChange \/ ProcPValues \/ ProcCorrection \/ ProcLog10 \/ ProcExport

SpecStats == StatInit /\ [][StatNext]_vars

\* The run has passed the row filter / the fold change / the p-values.
Filtered == stat.pc \in {"statistics", "fold_change", "pvalues", "correction",
                         "log10", "export", "done"}
FoldChangeDone == stat.pc \in {"pvalues", "correction", "log10", "export", "done"}
PValuesDone == stat.pc \in {"correction", "log10", "export", "done"}

\* C1: for every test name and correction method, the default pair (t-test,
\* 'None') included, process_files runs to the export and writes the table:
\* a run on numeric tables that keep a row does not abort on the way.
C1_ProcessRunsToExport ==
    stat.pc = "aborted" => stat.combined_df = <<>> \/ stat.err = "TypeError"

\* C2: after the row filter and fillna(0), no row of the table has all three
\* replicates equal to 0 in both conditions.
C2_NoRowAllZero ==
    Filtered =>
        \A i \in 1..Len(stat.combined_df) :
            ~(is_all_zero(stat.combined_df[i].group1)
              /\ is_all_zero(stat.combined_df[i].group2))

\* C5: calculate_pvalues returns one p-value per row, in row order: the
\* test's p-value, or 1.0 for a row whose test raised ValueError.
C5_OnePValuePerRow ==
    PValuesDone =>
        /\ Len(stat.raw_pvals) = Len(stat.combined_df)
        /\ \A i \in 1..Len(stat.combined_df) :
              stat.raw_pvals[i] =
                  IF stat.test_results[i].raised = "ValueError" THEN <<1, 1>>
                  ELSE stat.test_results[i].pvalue

\* C5's case: a table of two rows, the test raising on the first only.
C5_Witness ==
    /\ PValuesDone
    /\ Len(stat.combined_df) = 2
    /\ stat.test_func = "wilcoxon"
    /\ stat.test_results[1].raised = "ValueError"
    /\ stat.test_results[2].raised = "none"
    /\ stat.raw_pvals = <<<<1, 1>>, <<1, 1000>>>>

\* The test each documented name stands for.
DocumentedTest(name) ==
    CASE name = "t-test" -> "ttest_ind"
      [] name = "mannwhitneyu" -> "mannwhitneyu"
      [] name = "wilcoxon" -> "wilcoxon"
      [] name = "kruskal" -> "kruskal"
      [] name = "f_oneway" -> "f_oneway"
      [] name = "ttest_rel" -> "ttest_rel"

\* C6: each documented test name selects the test of that name (ttest_rel the
\* paired t-test, not the independent one); a name that is no test selects
\* the independent t-test.
C6_TestOfThatName ==
    stat.pc \notin {"idle", "start"} =>
        /\ stat.test_name \in {"t-test", "mannwhitneyu", "wilcoxon", "kruskal",
                               "f_oneway", "ttest_rel"}
              => stat.test_func = DocumentedTest(stat.test_name)
        /\ stat.test_name = "anova" => stat.test_func = "ttest_ind"

\* The row is present in one condition only.
OnlyIn1(row) == is_all_zero(row.group2) /\ ~is_all_zero(row.group1)
OnlyIn2(row) == is_all_zero(row.group1) /\ ~is_all_zero(row.group2)

\* C9 as stated: every kept row has a defined, finite Log2_Fold_Change,
\* strictly positive when the row is present only in condition 1 and strictly
\* negative when present only in condition 2.
C9_FoldChangeSignAsStated ==
    FoldChangeDone =>
        \A i \in 1..Len(stat.combined_df) :
            LET row == stat.combined_df[i] IN
            /\ ~row.Log2_Fold_Change.missing
            /\ OnlyIn1(row) => RatLess(RatOne, row.Log2_Fold_Change.log2_of)
            /\ OnlyIn2(row) => RatLess(row.Log2_Fold_Change.log2_of, RatOne)

\* C9 amended: every kept row has a defined, finite Log2_Fold_Change; it is
\* strictly positive when the row is present only in condition 1 with a row
\* average above 10E-15, strictly negative when present only in condition 2
\* with a row average above 10E-15.
C9_FoldChangeDefined ==
    FoldChangeDone =>
        \A i \in 1..Len(stat.combined_df) :
            LET row == stat.combined_df[i] IN
            /\ ~row.Log2_Fold_Change.missing
            /\ OnlyIn1(row) /\ RatLess(<<Epsilon, 1>>, RowMean(row.group1))
                  => RatLess(RatOne, row.Log2_Fold_Change.log2_of)
            /\ OnlyIn2(row) /\ RatLess(<<Epsilon, 1>>, RowMean(row.group2))
                  => RatLess(row.Log2_Fold_Change.log2_of, RatOne)

\* C9's case: a kept row present only in condition 1, its zero average of
\* condition 2 replaced by the epsilon, its fold change positive.
C9_Witness ==
    /\ FoldChangeDone
    /\ \E i \in 1..Len(stat.combined_df) :
          LET row == stat.combined_df[i] IN
          /\ OnlyIn1(row)
          /\ RatLess(<<Epsilon, 1>>, RowMean(row.group1))
          /\ row.Row_Average_2 = <<Epsilon, 1>>
          /\ ~row.Log2_Fold_Change.missing
          /\ RatLess(RatOne, row.Log2_Fold_Change.log2_of)

(***************************************************************************)
(* statistics_multipletests.py: the command line (lines 254-289)           *)
(***************************************************************************)
\* What a user may write after the two file names.
MainArguments ==
    {"t-test", "wilcoxon", "T-TEST", "fdr_bh", "holm", "Bonferroni", "None"}

\* sys.argv: the script name, then one to five arguments.
ArgumentLists ==
    { <<"statistics.py", "f1">>,
      <<"statistics.py", "f1", "f2">>,
      <<"statistics.py", "f1", "f2", "t-test", "fdr_bh", "more">> }
    \cup { <<"statistics.py", "f1", "f2", a>> : a \in MainArguments }
    \cup { <<"statistics.py", "f1", "f2", a, b>> :
              a \in MainArguments, b \in MainArguments }

\* sys.argv[i], counted from 0 as the script counts.
ArgvAt(argv, i) == argv[i + 1]

\* Line 273
valid_corrections == {"bonferroni", "fdr_bh", "fdr_by", "holm", "sidak"}

\* The tables behind the two file names.
MainTables ==
    { [file_1 |-> <<FileRow(<<"A">>, g1)>>,
       file_2 |-> <<FileRow(<<"A">>, <<2, 2, 2>>)>>] : g1 \in KindsOfTriplicate }

\* A name of the script that no statement has bound yet.
Unbound == "unbound"

MainInit ==
    /\ \E argv \in ArgumentLists, tables \in MainTables :
          stat = [pc |-> "main", err |-> "none", argv |-> argv,
                  tables |-> tables, test |-> Unbound, correction |-> Unbound,
                  main_test_name |-> Unbound, call |-> 0, calls |-> <<>>,
                  printed |-> NoneStr,
                  test_name |-> Unbound, correction_method |-> Unbound,
                  file_1 |-> <<>>, file_2 |-> <<>>,
                  test_func |-> "unset", merged_df |-> <<>>, kept_df |-> <<>>,
                  combined_df |-> <<>>,
                  test_results |-> <<>>, raw_pvals |-> <<>>,
                  output_filename |-> <<>>, written |-> <<>>]
    /\ fmt = Idle /\ ann = Idle /\ corr = Idle /\ vol = Idle /\ sig = Idle

\* process_files(file1, file2, test_name, correction_method) is entered: its
\* parameters are bound and its local names are fresh.
EnterProcessFiles(s, test_name, correction_method) ==
    [s EXCEPT !.pc = "start",
              !.test_name = test_name, !.correction_method = correction_method,
              !.file_1 = s.tables.file_1, !.file_2 = s.tables.file_2,
              !.test_func = "unset", !.merged_df = <<>>, !.kept_df = <<>>,
              !.combined_df = <<>>,
              !.test_results = <<>>, !.raw_pvals = <<>>,
              !.call = s.call + 1,
              !.calls = Append(s.calls, <<test_name, correction_method>>)]

\* Lines 255-264: the usage check, the names test and correction, and the
\* first call of process_files.
MainStart ==
    /\ stat.pc = "main"
    /\ LET n == Len(stat.argv) IN
       IF n < 3 \/ n > 5
       THEN stat' = [stat EXCEPT !.pc = "exit"]
       ELSE LET test == IF n > 3 THEN ArgvAt(stat.argv, 3) ELSE "t-test"
                correction == IF n > 4 THEN ArgvAt(stat.argv, 4) ELSE "None"
            IN stat' = EnterProcessFiles(
                          [stat EXCEPT !.test = test, !.correction = correction],
                          test, correction)
    /\ UNCHANGED <<fmt, ann, corr, vol, sig>>

\* Lines 266-283: the names test_name and correction after the branches.
ResolvedNames(argv, test_name, correction) ==
    LET n == Len(argv) IN
    IF n = 4
    THEN LET arg == Lower(ArgvAt(argv, 3)) IN
         IF arg \in valid_corrections
         THEN [test_name |-> test_name, correction |-> arg]
         ELSE [test_name |-> arg, correction |-> correction]
    ELSE IF n = 5
    THEN [test_name |-> Lower(ArgvAt(argv, 3)),
          correction |-> Lower(ArgvAt(argv, 4))]
    ELSE [test_name |-> test_name, correction |-> correction]

\* Lines 266-289, reached when the first call has returned: the branches,
\* the message (NameError when test_name is not bound), the second call.
MainSecondCall ==
    /\ stat.pc = "done"
    /\ stat.call = 1
    /\ LET names == ResolvedNames(stat.argv, stat.main_test_name, stat.correction)
           bound == [stat EXCEPT !.main_test_name = names.test_name,
                                 !.correction = names.correction]
       IN IF names.test_name = Unbound
          THEN stat' = [bound EXCEPT !.pc = "aborted", !.err = "NameError"]
          ELSE stat' = EnterProcessFiles(
                          [bound EXCEPT !.printed =
                               <<names.test_name, names.correction>>],
                          names.test_name, names.correction)
    /\ UNCHANGED <<fmt, ann, corr, vol, sig>>

MainNext == MainStart \/ MainSecondCall \/ StatNext

SpecMain == MainInit /\ [][MainNext]_vars

\* The (test, correction) pair the command line stands for.
ResolvedPair(argv) ==
    LET n == Len(argv) IN
    IF n = 3 THEN <<"t-test", "None">>
    ELSE IF n = 4
    THEN IF Lower(ArgvAt(argv, 3)) \in valid_corrections
         THEN <<"t-test", Lower(ArgvAt(argv, 3))>>
         ELSE <<Lower(ArgvAt(argv, 3)), "None">>
    ELSE <<Lower(ArgvAt(argv, 3)), Lower(ArgvAt(argv, 4))>>

\* C11: every call of process_files made by one invocation uses the pair the
\* command line resolves to (the test name up to its case, which
\* get_test_function ignores), the script does not stop on an undefined
\* name, and it does not stop on a missing column before the run-details
\* message is printed.
C11_CallsUseResolvedPair ==
    stat.pc \notin {"main", "exit"} =>
        /\ \A i \in 1..Len(stat.calls) :
              <<Lower(stat.calls[i][1]), stat.calls[i][2]>> = ResolvedPair(stat.argv)
        /\ stat.err # "NameError"
        /\ stat.err = "KeyError" => stat.printed # NoneStr

(***************************************************************************)
(* statistics_multipletests.py: the row filter (lines 140-155, 192-196)    *)
(***************************************************************************)
NoMissing(values) == \A i \in 1..3 : values[i] # NaN
AllMissing3(values) == \A i \in 1..3 : values[i] = NaN

Merged == stat.pc \notin {"idle", "main", "exit", "start", "read"}

\* C13: in the merged table every entry of the three replicate columns of
\* either file is a number or a missing value: a non-numeric entry of the
\* file has been coerced to missing in each of the three columns.
C13_AllReplicatesNumeric ==
    Merged =>
        \A i \in 1..Len(stat.merged_df) :
            \A k \in 1..3 :
                /\ stat.merged_df[i].group1[k] # NonNumeric
                /\ stat.merged_df[i].group2[k] # NonNumeric

(***************************************************************************)
(* annotate.py: what the annotation leaves alone (lines 30-47)             *)
(***************************************************************************)
\* C14: the output has the input's header, and every data row written has as
\* many fields as its input row, each field other than column 2 equal to the
\* input's; a file annotated to its end has as many rows as its input.
C14_OnlyColumn2Changes ==
    ann.pc \in {"rows", "done", "error"} =>
        /\ ann.output[1] = ann.lines[1]
        /\ ann.pc = "done" => Len(ann.output) = Len(ann.lines)
        /\ \A k \in 2..Len(ann.output) :
              LET written == FieldsOf(ann.output[k])
                  read == FieldsOf(ann.lines[k])
              IN /\ Len(written) = Len(read)
                 /\ \A c \in 1..Len(read) : c # 2 => written[c] = read[c]

(***************************************************************************)
(* The statistics output as the plotter and the extractor read it          *)
(***************************************************************************)
\* df.iloc[:, n]: the column at position n, counted from 0.
ColumnAt(table, n) == [i \in 1..Len(table.rows) |-> table.rows[i][n + 1]]

\* df[name]: the column of that name.
ColumnNamed(table, name) ==
    LET c == CHOOSE k \in 1..Len(table.header) : table.header[k] = name IN
    [i \in 1..Len(table.rows) |-> table.rows[i][c]]

\* significant_list.py, lines 124-132: the columns handed to significant_list.
SignificantMain(table) ==
    [log2_fold_change |-> ColumnAt(table, 14),
     transformed_pvalues |-> ColumnAt(table, 17),
     annotations |-> ColumnAt(table, 1),
     accessions |-> ColumnAt(table, 0),
     condition |-> ColumnAt(table, 9)]

\* The bound of the plotter's filter on the fold change (line 128).
PlotRange == 15

\* -15 <= log2(x) <= 15; a missing value compares false.
InPlotRange(fc) ==
    /\ ~fc.missing
    /\ RatLeq(fc.log2_of, RatPow(<<2, 1>>, PlotRange))
    /\ RatLeq(RatPow(<<1, 2>>, PlotRange), fc.log2_of)

\* volcano_plot.py, lines 124-135: the rows within the range, then the
\* columns handed to volcano_plot.
VolcanoMain(table) ==
    LET filtered_df ==
            [header |-> table.header,
             rows |-> SelectSeq(table.rows, LAMBDA r : InPlotRange(r[14 + 1]))]
    IN [log2_fold_change |-> ColumnAt(filtered_df, 14),
        transformed_pvalues |-> ColumnAt(filtered_df, 17),
        SPO |-> ColumnAt(filtered_df, 0),
        annotations |-> ColumnAt(filtered_df, 1),
        present_only_in |-> ColumnNamed(filtered_df, Column("Present_Only_In"))]

\* The column of the exported table, one entry per row.
Exported(Field(_)) == [i \in 1..Len(stat.combined_df) |-> Field(stat.combined_df[i])]

====
